---- MODULE Spec2Model ----
(***************************************************************************)
(* A model of datajoin.py: the Brookfield viscometer report joiner.         *)
(*                                                                         *)
(* Three specifications share the definitions below:                       *)
(*   SpecMerge  calculate_rates, one loop iteration per step               *)
(*   SpecRead   read_data with its call of sniff_dialect, statement by     *)
(*              statement                                                  *)
(*   SpecMain   main, one call per step                                    *)
(*                                                                         *)
(* Python values carry their type: [int |-> 100], [str |-> "abc"],        *)
(* [float |-> <<125, 1>>] for 12.5 (mantissa, number of decimals, without  *)
(* trailing zeros), [datetime |-> t].  A csv cell and a dict key are TLA+  *)
(* strings, a dict is a function on its key set, a list is a sequence.     *)
(***************************************************************************)
EXTENDS Integers, Sequences, FiniteSets, TLC

VARIABLES
    pc,             \* position of the running function
    err,            \* name of the exception that propagated, "" when none
    points,         \* calculate_rates / main: the list of measurement records
    sorted_points,  \* calculate_rates: points sorted by DT
    order,          \* calculate_rates: sorted list of the distinct keys
    max_point,      \* calculate_rates: order[-1]
    output,         \* calculate_rates: dict key -> row
    point_no,       \* calculate_rates: number of records the loop has consumed
    rows,           \* calculate_rates: the returned list
    file,           \* read_data: the file on disk
    fp_pos,         \* read_data / sniff_dialect: position of the stream fp
    dialect,        \* sniff_dialect: the returned dialect
    data,           \* read_data: the grid csv.reader produced
    dt,             \* read_data: the parsed timestamp
    record,         \* read_data: the returned dict
    files,          \* main: sorted(collect_files(directory)), as file contents
    dump_opt,       \* main: options.dump is truthy
    files_read,     \* main: number of read_data calls made
    dump_file,      \* main: state of the file options.dump
    output_file,    \* main: state of the file options.output
    exit_code       \* main: the returned value, -1 while none

commonVars == <<pc, err, points>>
mergeVars == <<sorted_points, order, max_point, output, point_no, rows>>
readVars == <<file, fp_pos, dialect, data, dt, record>>
mainVars == <<files, dump_opt, files_read, dump_file, output_file, exit_code>>
vars == <<commonVars, mergeVars, readVars, mainVars>>

\* a variable that holds no value yet
None == [None |-> TRUE]

----------------------------------------------------------------------------
(* Bounds of the model *)

MaxPoints == 4
MaxFiles == 3

----------------------------------------------------------------------------
(* transform_value *)

DigitValue ==
    ("0" :> 0) @@ ("1" :> 1) @@ ("2" :> 2) @@ ("3" :> 3) @@ ("4" :> 4) @@
    ("5" :> 5) @@ ("6" :> 6) @@ ("7" :> 7) @@ ("8" :> 8) @@ ("9" :> 9)

CharAt(s, i) == SubSeq(s, i, i)

IsDigits(s) ==
    /\ Len(s) > 0
    /\ \A i \in 1..Len(s) : CharAt(s, i) \in DOMAIN DigitValue

HasSign(s) == Len(s) > 0 /\ CharAt(s, 1) \in {"-", "+"}

Unsigned(s) == IF HasSign(s) THEN SubSeq(s, 2, Len(s)) ELSE s

SignOf(s) == IF Len(s) > 0 /\ CharAt(s, 1) = "-" THEN -1 ELSE 1

RECURSIVE DigitsValue(_)
DigitsValue(s) ==
    IF Len(s) = 0 THEN 0
    ELSE 10 * DigitsValue(SubSeq(s, 1, Len(s) - 1)) + DigitValue[CharAt(s, Len(s))]

\* int(value) succeeds: an optional sign and decimal digits
IsIntLiteral(s) == IsDigits(Unsigned(s))

IntValue(s) == SignOf(s) * DigitsValue(Unsigned(s))

DotPositions(s) == {i \in 1..Len(s) : CharAt(s, i) = "."}

\* float(value) succeeds where int(value) failed: an optional sign, digits
\* with one decimal point and at least one digit
IsFloatLiteral(s) ==
    LET u == Unsigned(s)
        dots == DotPositions(u)
    IN  /\ Cardinality(dots) = 1
        /\ Len(u) > 1
        /\ \A i \in (1..Len(u)) \ dots : CharAt(u, i) \in DOMAIN DigitValue

RECURSIVE Normalise(_, _)
Normalise(m, scale) ==
    IF scale > 0 /\ m % 10 = 0 THEN Normalise(m \div 10, scale - 1) ELSE <<m, scale>>

FloatValue(s) ==
    LET u == Unsigned(s)
        d == CHOOSE i \in DotPositions(u) : TRUE
        digits == SubSeq(u, 1, d - 1) \o SubSeq(u, d + 1, Len(u))
        n == Normalise(DigitsValue(digits), Len(u) - d)
    IN  <<SignOf(s) * n[1], n[2]>>

transform_value(value) ==
    IF IsIntLiteral(value) THEN [int |-> IntValue(value)]
    ELSE IF IsFloatLiteral(value) THEN [float |-> FloatValue(value)]
    ELSE [str |-> value]

----------------------------------------------------------------------------
(* comparison of numbers *)

Mantissa(v) == IF "int" \in DOMAIN v THEN v.int ELSE v.float[1]

Decimals(v) == IF "int" \in DOMAIN v THEN 0 ELSE v.float[2]

RECURSIVE Pow10(_)
Pow10(n) == IF n = 0 THEN 1 ELSE 10 * Pow10(n - 1)

\* x < y for an int or a float x and y
NumLess(x, y) == Mantissa(x) * Pow10(Decimals(y)) < Mantissa(y) * Pow10(Decimals(x))

----------------------------------------------------------------------------
(* sniff_dialect and read_data *)

\* fp.read(2000)
SniffSample == 2000

Min(a, b) == IF a < b THEN a ELSE b

\* csv.excel
Excel == [delimiter |-> ","]

\* what csv.Sniffer().sniff makes of the sample, delimiters=',;\t'
SniffedDelimiter == ("comma" :> ",") @@ ("semicolon" :> ";") @@ ("tab" :> "\t")

\* dateutil is not part of the repository: parse is modelled on the date and
\* time cells the instrument writes, and rejects every other text
DateOrdinal == ("2023-01-28" :> 1) @@ ("2023-01-29" :> 2)
TimeOrdinal == ("10:00" :> 1) @@ ("11:30" :> 2)

Parsable(date, time) == date \in DOMAIN DateOrdinal /\ time \in DOMAIN TimeOrdinal

\* dtparser.parse(f'{data[7][2]} {data[7][3]}')
ParsedDT(date, time) ==
    [datetime |-> DateOrdinal[date] * (Cardinality(DOMAIN TimeOrdinal) + 1) + TimeOrdinal[time]]

\* a variant that reads the date and the time from the row before
TimeCellsOfRowSix(grid) ==
    IF Len(grid) < 7 THEN <<>>
    ELSE IF Len(grid[7]) < 4 THEN <<>>
    ELSE <<grid[7][3], grid[7][4]>>

\* data[7][2] and data[7][3]; no cells when one of the indexes raises IndexError
TimeCells(grid) ==
    IF Len(grid) < 8 THEN <<>>
    ELSE IF Len(grid[8]) < 4 THEN <<>>
    ELSE <<grid[8][3], grid[8][4]>>

\* a variant that takes the names from the second-to-last row
NameRowSecondToLast(grid) == grid[Len(grid) - 1]

\* data[-3]
NameRow(grid) == grid[Len(grid) - 2]

\* data[-1]
ValueRow(grid) == grid[Len(grid)]

\* dict(zip(names, map(lambda v: transform_value(v), values))): zip stops at
\* the shorter row, a repeated name keeps the value of its last position
Zip(names, values) ==
    LET n == Min(Len(names), Len(values))
    IN  [name \in {names[i] : i \in 1..n} |->
            transform_value(values[CHOOSE i \in 1..n :
                /\ names[i] = name
                /\ \A j \in (i + 1)..n : names[j] # name])]

\* dict(DT=dt, **fields)
WithDT(d, fields) == ("DT" :> d) @@ fields

\* data[7][2] or data[7][3] does not exist
NoTimeCells(grid) == TimeCells(grid) = <<>>

\* the exception read_data raises, "" when it returns
ReadError(f) ==
    IF f.sample = "undecodable" THEN "UnicodeDecodeError"
    ELSE IF NoTimeCells(f.grid) THEN "IndexError"
    ELSE IF ~Parsable(TimeCells(f.grid)[1], TimeCells(f.grid)[2]) THEN "ParserError"
    ELSE IF "DT" \in DOMAIN Zip(NameRow(f.grid), ValueRow(f.grid)) THEN "TypeError"
    ELSE ""

\* the dict read_data returns
read_data(f) ==
    WithDT(ParsedDT(TimeCells(f.grid)[1], TimeCells(f.grid)[2]),
           Zip(NameRow(f.grid), ValueRow(f.grid)))

----------------------------------------------------------------------------
(* calculate_rates *)

Point(d, speed, rate, viscosity, stress) ==
    ("DT" :> [datetime |-> d]) @@ ("Speed" :> [int |-> speed]) @@
    ("Shear Rate" :> [int |-> rate]) @@ ("Viscosity" :> [int |-> viscosity]) @@
    ("Shear Stress" :> [int |-> stress])

\* the position at which list.sort puts p into an already sorted list:
\* after every element whose DT is not greater (the sort is stable)
RECURSIVE InsertByDT(_, _)
InsertByDT(s, p) ==
    IF s = <<>> THEN <<p>>
    ELSE IF s[Len(s)]["DT"].datetime <= p["DT"].datetime THEN Append(s, p)
    ELSE Append(InsertByDT(SubSeq(s, 1, Len(s) - 1), p), s[Len(s)])

\* a variant that keeps the list in its input order
UnsortedByDT(ps) == ps

\* sorted(points, key=lambda p: p['DT'])
RECURSIVE SortedByDT(_)
SortedByDT(ps) ==
    IF ps = <<>> THEN <<>>
    ELSE InsertByDT(SortedByDT(SubSeq(ps, 1, Len(ps) - 1)), ps[Len(ps)])

\* (point['Speed'], point['Shear Rate'])
PointIndex(point) == <<point["Speed"], point["Shear Rate"]>>

\* the set {(point['Speed'], point['Shear Rate']) for point in sorted_points}
KeySet(ps) == {PointIndex(ps[i]) : i \in 1..Len(ps)}

\* tuple comparison a < b
KeyLess(a, b) == NumLess(a[1], b[1]) \/ (a[1] = b[1] /\ NumLess(a[2], b[2]))

\* a variant that sorts the keys in descending order
RECURSIVE SortedKeysDescending(_)
SortedKeysDescending(keys) ==
    IF keys = {} THEN <<>>
    ELSE LET greatest == CHOOSE k \in keys : \A other \in keys \ {k} : KeyLess(other, k)
         IN  <<greatest>> \o SortedKeysDescending(keys \ {greatest})

\* sorted(list(keys))
RECURSIVE SortedKeys(_)
SortedKeys(keys) ==
    IF keys = {} THEN <<>>
    ELSE LET least == CHOOSE k \in keys : \A other \in keys \ {k} : KeyLess(k, other)
         IN  <<least>> \o SortedKeys(keys \ {least})

\* the row written for max_point
MaxRow(point) ==
    <<point["Speed"], point["Shear Rate"], point["Viscosity"], point["Shear Stress"],
      point["Viscosity"], point["Shear Stress"]>>

\* the row written for the first occurrence of a key
FirstRow(point) ==
    <<point["Speed"], point["Shear Rate"], point["Viscosity"], point["Shear Stress"]>>

\* a variant that appends the viscosity only
ExtendedRowViscosityOnly(row, point) == row \o <<point["Viscosity"]>>

\* output[point_index].extend([...])
ExtendedRow(row, point) == row \o <<point["Viscosity"], point["Shear Stress"]>>

Put(dict, key, value) ==
    [k \in DOMAIN dict \cup {key} |-> IF k = key THEN value ELSE dict[k]]

\* a variant whose second occurrence replaces the reverse-stroke pair each time
\* the key comes again
FoldStepLastPairWins(out, point, maxp) ==
    LET point_index == PointIndex(point)
    IN  IF point_index = maxp THEN Put(out, point_index, MaxRow(point))
        ELSE IF point_index \in DOMAIN out
             THEN Put(out, point_index,
                      ExtendedRow(SubSeq(out[point_index], 1, 4), point))
        ELSE Put(out, point_index, FirstRow(point))

\* a variant that writes the max_point row for the first record of the key only
FoldStepFirstMaxWins(out, point, maxp) ==
    LET point_index == PointIndex(point)
    IN  IF point_index = maxp /\ point_index \notin DOMAIN out
             THEN Put(out, point_index, MaxRow(point))
        ELSE IF point_index = maxp THEN out
        ELSE IF point_index \in DOMAIN out /\ Len(out[point_index]) < 6
             THEN Put(out, point_index, ExtendedRow(out[point_index], point))
        ELSE IF point_index \notin DOMAIN out
             THEN Put(out, point_index, FirstRow(point))
        ELSE out

\* one iteration of the for loop
FoldStep(out, point, maxp) ==
    LET point_index == PointIndex(point)
    IN  IF point_index = maxp THEN Put(out, point_index, MaxRow(point))
        ELSE IF point_index \in DOMAIN out /\ Len(out[point_index]) < 6
             THEN Put(out, point_index, ExtendedRow(out[point_index], point))
        ELSE IF point_index \notin DOMAIN out
             THEN Put(out, point_index, FirstRow(point))
        ELSE out

EmptyDict == [k \in {} |-> <<>>]

\* [output[index] for index in order]
RowList(out, ord) == [i \in 1..Len(ord) |-> out[ord[i]]]

\* the for loop over the records ps
RECURSIVE Fold(_, _, _)
Fold(out, ps, maxp) ==
    IF ps = <<>> THEN out ELSE Fold(FoldStep(out, Head(ps), maxp), Tail(ps), maxp)

\* the exception calculate_rates raises, "" when it returns: order[-1] of an
\* empty list
CalculateRatesError(ps) == IF SortedKeys(KeySet(SortedByDT(ps))) = <<>> THEN "IndexError" ELSE ""

\* the list calculate_rates returns
calculate_rates(ps) ==
    LET sorted == SortedByDT(ps)
        ord == SortedKeys(KeySet(sorted))
    IN  RowList(Fold(EmptyDict, sorted, ord[Len(ord)]), ord)

----------------------------------------------------------------------------
(* dump *)

\* a variant that writes a dump without a header
DumpErrorNone(ps) == ""

\* the exception dump raises before it opens the file, "" when it writes:
\* points[0] of an empty list
DumpError(ps) == IF ps = <<>> THEN "IndexError" ELSE ""

----------------------------------------------------------------------------
(* calculate_rates, one loop iteration per step *)

Speeds == {100, 200}
ShearRates == {50, 80}
Keys == Speeds \X ShearRates
Timestamps == {1, 2, 3}

\* The loop only copies point['Viscosity'] and point['Shear Stress'], so the
\* i-th record of the input carries readings that identify it.
ViscosityOf(i) == 2 * i - 1
ShearStressOf(i) == 2 * i

\* the input list: n records with any keys and any timestamps
PointList(n, ks, ds) ==
    [i \in 1..n |-> Point(ds[i], ks[i][1], ks[i][2], ViscosityOf(i), ShearStressOf(i))]

InitOther ==
    /\ err = ""
    /\ sorted_points = <<>>
    /\ order = <<>>
    /\ max_point = <<>>
    /\ output = EmptyDict
    /\ point_no = 0
    /\ rows = <<>>
    /\ fp_pos = 0
    /\ dialect = None
    /\ data = <<>>
    /\ dt = None
    /\ record = None
    /\ files_read = 0
    /\ dump_file = "absent"
    /\ output_file = "absent"
    /\ exit_code = -1

InitMerge ==
    /\ pc = "calculate_rates"
    /\ \E n \in 0..MaxPoints : \E ks \in [1..n -> Keys], ds \in [1..n -> Timestamps] :
            points = PointList(n, ks, ds)
    /\ file = None
    /\ files = <<>>
    /\ dump_opt = FALSE
    /\ InitOther

\* lines 119-122, the list has a key
SortPoints ==
    /\ pc = "calculate_rates"
    /\ KeySet(SortedByDT(points)) # {}
    /\ sorted_points' = SortedByDT(points)
    /\ order' = SortedKeys(KeySet(sorted_points'))
    /\ max_point' = order'[Len(order')]
    /\ output' = EmptyDict
    /\ point_no' = 0
    /\ pc' = "for_point"
    /\ UNCHANGED <<err, points, rows, readVars, mainVars>>

\* lines 119-122, order is empty: order[-1] raises IndexError
EmptyOrder ==
    /\ pc = "calculate_rates"
    /\ KeySet(SortedByDT(points)) = {}
    /\ sorted_points' = SortedByDT(points)
    /\ order' = SortedKeys(KeySet(sorted_points'))
    /\ pc' = "raised"
    /\ err' = "IndexError"
    /\ UNCHANGED <<points, max_point, output, point_no, rows, readVars, mainVars>>

NextPoint == sorted_points[point_no + 1]

Iterate ==
    /\ pc = "for_point"
    /\ point_no < Len(sorted_points)
    /\ output' = FoldStep(output, NextPoint, max_point)
    /\ point_no' = point_no + 1
    /\ UNCHANGED <<commonVars, sorted_points, order, max_point, rows, readVars, mainVars>>

\* lines 125-134
LoopMax ==
    /\ pc = "for_point" /\ point_no < Len(sorted_points)
    /\ PointIndex(NextPoint) = max_point
    /\ Iterate

\* lines 135-137
LoopExtend ==
    /\ pc = "for_point" /\ point_no < Len(sorted_points)
    /\ PointIndex(NextPoint) # max_point
    /\ PointIndex(NextPoint) \in DOMAIN output
    /\ Len(output[PointIndex(NextPoint)]) < 6
    /\ Iterate

\* lines 138-144
LoopCreate ==
    /\ pc = "for_point" /\ point_no < Len(sorted_points)
    /\ PointIndex(NextPoint) # max_point
    /\ PointIndex(NextPoint) \notin DOMAIN output
    /\ Iterate

\* no branch of the loop body applies
LoopSkip ==
    /\ pc = "for_point" /\ point_no < Len(sorted_points)
    /\ PointIndex(NextPoint) # max_point
    /\ PointIndex(NextPoint) \in DOMAIN output
    /\ Len(output[PointIndex(NextPoint)]) >= 6
    /\ Iterate

\* line 146
ReturnRows ==
    /\ pc = "for_point"
    /\ point_no = Len(sorted_points)
    /\ rows' = RowList(output, order)
    /\ pc' = "returned"
    /\ UNCHANGED <<err, points, sorted_points, order, max_point, output, point_no,
                   readVars, mainVars>>

NextMerge ==
    \/ SortPoints
    \/ EmptyOrder
    \/ LoopMax
    \/ LoopExtend
    \/ LoopCreate
    \/ LoopSkip
    \/ ReturnRows

SpecMerge == InitMerge /\ [][NextMerge]_vars

----------------------------------------------------------------------------
(* read_data, statement by statement *)

Samples == {"comma", "semicolon", "tab", "soup", "undecodable"}
FileSizes == {1500, 6000}
RowCounts == {7, 8, 9, 10, 11, 12}

SampleRows == {
    <<"Speed", "Shear Rate", "Viscosity", "Shear Stress">>,
    <<"100", "50", "12.50", "abc">>,
    <<"Date", "Time", "2023-01-28", "10:00">>,
    <<"200", "+80", "2023-01-29", "11:30", "-7.">>,
    <<"DT", "Speed">>,
    <<"Speed", "Speed", "Viscosity">>,
    <<>> }

Blank(n) == [i \in 1..n |-> <<>>]

\* a grid of n rows: blank lines, the row with index 7 and the last three rows
Grid(n, time_row, tail) ==
    IF n >= 11 THEN Blank(7) \o <<time_row>> \o Blank(n - 11) \o tail
    ELSE Blank(n - 3) \o tail

InitRead ==
    /\ pc = "read_data"
    /\ \E sample \in Samples, size \in FileSizes, n \in RowCounts :
       \E time_row \in SampleRows, tail \in [1..3 -> SampleRows] :
            file = [sample |-> sample, size |-> size, grid |-> Grid(n, time_row, tail)]
    /\ points = <<>>
    /\ files = <<>>
    /\ dump_opt = FALSE
    /\ InitOther

\* line 79: open(filename, encoding='cp1251')
OpenFile ==
    /\ pc = "read_data"
    /\ fp_pos' = 0
    /\ pc' = "sniff_dialect"
    /\ UNCHANGED <<err, points, file, dialect, data, dt, record, mergeVars, mainVars>>

\* line 48: fp.read(2000) returns the sample
SniffRead ==
    /\ pc = "sniff_dialect"
    /\ file.sample # "undecodable"
    /\ fp_pos' = Min(file.size, SniffSample)
    /\ pc' = "sniff"
    /\ UNCHANGED <<err, points, file, dialect, data, dt, record, mergeVars, mainVars>>

\* line 48: fp.read(2000) meets a byte cp1251 does not define; the stream is
\* left somewhere in the sample
SniffReadFails ==
    /\ pc = "sniff_dialect"
    /\ file.sample = "undecodable"
    /\ fp_pos' \in {0, Min(file.size, SniffSample)}
    /\ err' = "UnicodeDecodeError"
    /\ pc' = "sniff_finally"
    /\ UNCHANGED <<points, file, dialect, data, dt, record, mergeVars, mainVars>>

\* lines 48-49: the sniffer finds a delimiter
SniffDetects ==
    /\ pc = "sniff"
    /\ file.sample \in DOMAIN SniffedDelimiter
    /\ dialect' = [delimiter |-> SniffedDelimiter[file.sample]]
    /\ pc' = "sniff_finally"
    /\ UNCHANGED <<err, points, file, fp_pos, data, dt, record, mergeVars, mainVars>>

\* lines 50-51: the sniffer raises csv.Error
SniffFallsBack ==
    /\ pc = "sniff"
    /\ file.sample = "soup"
    /\ dialect' = Excel
    /\ pc' = "sniff_finally"
    /\ UNCHANGED <<err, points, file, fp_pos, data, dt, record, mergeVars, mainVars>>

\* a variant that rewinds the stream only when no exception is pending
SniffFinallyOnReturnOnly ==
    /\ pc = "sniff_finally"
    /\ fp_pos' = IF err = "" THEN 0 ELSE fp_pos
    /\ pc' = IF err = "" THEN "sniff_returned" ELSE "sniff_raised"
    /\ UNCHANGED <<err, points, file, dialect, data, dt, record, mergeVars, mainVars>>

\* lines 52-53: fp.seek(0), then sniff_dialect returns or the exception goes on
SniffFinally ==
    /\ pc = "sniff_finally"
    /\ fp_pos' = 0
    /\ pc' = IF err = "" THEN "sniff_returned" ELSE "sniff_raised"
    /\ UNCHANGED <<err, points, file, dialect, data, dt, record, mergeVars, mainVars>>

\* line 80: the exception of sniff_dialect leaves read_data
SniffPropagates ==
    /\ pc = "sniff_raised"
    /\ pc' = "raised"
    /\ UNCHANGED <<err, points, readVars, mergeVars, mainVars>>

\* line 80: list(csv.reader(fp, dialect=...))
ReadGrid ==
    /\ pc = "sniff_returned"
    /\ data' = file.grid
    /\ fp_pos' = file.size
    /\ pc' = "parse"
    /\ UNCHANGED <<err, points, file, dialect, dt, record, mergeVars, mainVars>>

\* line 81
ParseDT ==
    /\ pc = "parse"
    /\ ~NoTimeCells(data)
    /\ Parsable(TimeCells(data)[1], TimeCells(data)[2])
    /\ dt' = ParsedDT(TimeCells(data)[1], TimeCells(data)[2])
    /\ pc' = "zip"
    /\ UNCHANGED <<err, points, file, fp_pos, dialect, data, record, mergeVars, mainVars>>

\* line 81: data[7], data[7][2] or data[7][3] raises IndexError
ParseDTIndexError ==
    /\ pc = "parse"
    /\ NoTimeCells(data)
    /\ err' = "IndexError"
    /\ pc' = "raised"
    /\ UNCHANGED <<points, readVars, mergeVars, mainVars>>

\* line 81: dtparser.parse raises
ParseDTParserError ==
    /\ pc = "parse"
    /\ ~NoTimeCells(data)
    /\ ~Parsable(TimeCells(data)[1], TimeCells(data)[2])
    /\ err' = "ParserError"
    /\ pc' = "raised"
    /\ UNCHANGED <<points, readVars, mergeVars, mainVars>>

\* line 82
ReturnRecord ==
    /\ pc = "zip"
    /\ "DT" \notin DOMAIN Zip(NameRow(data), ValueRow(data))
    /\ record' = WithDT(dt, Zip(NameRow(data), ValueRow(data)))
    /\ pc' = "returned"
    /\ UNCHANGED <<err, points, file, fp_pos, dialect, data, dt, mergeVars, mainVars>>

\* line 82: dict() got multiple values for keyword argument 'DT'
DuplicateDT ==
    /\ pc = "zip"
    /\ "DT" \in DOMAIN Zip(NameRow(data), ValueRow(data))
    /\ err' = "TypeError"
    /\ pc' = "raised"
    /\ UNCHANGED <<points, readVars, mergeVars, mainVars>>

NextRead ==
    \/ OpenFile
    \/ SniffRead
    \/ SniffReadFails
    \/ SniffDetects
    \/ SniffFallsBack
    \/ SniffFinally
    \/ SniffPropagates
    \/ ReadGrid
    \/ ParseDT
    \/ ParseDTIndexError
    \/ ParseDTParserError
    \/ ReturnRecord
    \/ DuplicateDT

SpecRead == InitRead /\ [][NextRead]_vars

\* the statements of read_data and the function read_data agree
ReadDataAgrees ==
    /\ pc = "returned" => ReadError(file) = "" /\ record = read_data(file)
    /\ pc = "raised" => ReadError(file) = err


----------------------------------------------------------------------------
(* main, one call per step *)

FieldNames == <<"Speed", "Shear Rate", "Viscosity", "Shear Stress">>

\* an export of the instrument: the date and the time in the row with index
\* 7, the field names in the third-to-last row, the values in the last row
Export(date, time, values) ==
    [sample |-> "semicolon", size |-> 1500,
     grid |-> Blank(7) \o <<<<"Date", "Time", date, time>>>> \o Blank(1)
              \o <<FieldNames, <<>>, values>>]

\* the files of the directory: three exports of which the first and the third
\* measure the same point, a file cut after seven rows and a file that is not
\* cp1251 text
DirectoryFiles == {
    Export("2023-01-28", "10:00", <<"100", "50", "12.5", "30">>),
    Export("2023-01-28", "11:30", <<"200", "80", "20.25", "70">>),
    Export("2023-01-29", "10:00", <<"100", "50", "13.5", "31">>),
    [sample |-> "comma", size |-> 1500, grid |-> Blank(6) \o <<FieldNames>>],
    [sample |-> "undecodable", size |-> 6000, grid |-> <<>>] }

InitMain ==
    /\ pc = "main"
    /\ \E n \in 0..MaxFiles : files \in [1..n -> DirectoryFiles]
    /\ dump_opt \in BOOLEAN
    /\ points = <<>>
    /\ file = None
    /\ InitOther

NextFile == files[files_read + 1]

\* a variant that logs the bad file and goes on with the next one
ReadFileSkips ==
    /\ pc = "main"
    /\ files_read < Len(files)
    /\ ReadError(NextFile) # ""
    /\ files_read' = files_read + 1
    /\ UNCHANGED <<commonVars, files, dump_opt, dump_file, output_file, exit_code,
                   mergeVars, readVars>>

\* lines 182-184: read_data returns a record
ReadFile ==
    /\ pc = "main"
    /\ files_read < Len(files)
    /\ ReadError(NextFile) = ""
    /\ points' = Append(points, read_data(NextFile))
    /\ files_read' = files_read + 1
    /\ UNCHANGED <<pc, err, files, dump_opt, dump_file, output_file, exit_code,
                   mergeVars, readVars>>

\* line 184: read_data raises and main does not catch
ReadFileFails ==
    /\ pc = "main"
    /\ files_read < Len(files)
    /\ ReadError(NextFile) # ""
    /\ files_read' = files_read + 1
    /\ err' = ReadError(NextFile)
    /\ pc' = "raised"
    /\ UNCHANGED <<points, files, dump_opt, dump_file, output_file, exit_code,
                   mergeVars, readVars>>

\* lines 185-187: dump opens and writes options.dump
dump ==
    /\ pc = "main"
    /\ files_read = Len(files)
    /\ dump_opt
    /\ DumpError(points) = ""
    /\ dump_file' = "written"
    /\ pc' = "write_data"
    /\ UNCHANGED <<err, points, files, dump_opt, files_read, output_file, exit_code,
                   mergeVars, readVars>>

\* line 187: dump raises
DumpFails ==
    /\ pc = "main"
    /\ files_read = Len(files)
    /\ dump_opt
    /\ DumpError(points) # ""
    /\ err' = DumpError(points)
    /\ pc' = "raised"
    /\ UNCHANGED <<points, mainVars, mergeVars, readVars>>

\* line 185: options.dump is empty
NoDump ==
    /\ pc = "main"
    /\ files_read = Len(files)
    /\ ~dump_opt
    /\ pc' = "write_data"
    /\ UNCHANGED <<err, points, mainVars, mergeVars, readVars>>

\* line 189: calculate_rates(points) returns the rows
CalculateRows ==
    /\ pc = "write_data"
    /\ CalculateRatesError(points) = ""
    /\ rows' = calculate_rates(points)
    /\ pc' = "open_output"
    /\ UNCHANGED <<err, points, sorted_points, order, max_point, output, point_no,
                   mainVars, readVars>>

\* line 189: calculate_rates(points) raises
CalculateRowsFails ==
    /\ pc = "write_data"
    /\ CalculateRatesError(points) # ""
    /\ err' = CalculateRatesError(points)
    /\ pc' = "raised"
    /\ UNCHANGED <<points, mainVars, mergeVars, readVars>>

\* lines 189-190: write_data opens and writes options.output, main returns 0
write_data ==
    /\ pc = "open_output"
    /\ output_file' = "written"
    /\ exit_code' = 0
    /\ pc' = "returned"
    /\ UNCHANGED <<err, points, files, dump_opt, files_read, dump_file,
                   mergeVars, readVars>>

NextMain ==
    \/ ReadFile
    \/ ReadFileFails
    \/ dump
    \/ DumpFails
    \/ NoDump
    \/ CalculateRows
    \/ CalculateRowsFails
    \/ write_data

SpecMain == InitMain /\ [][NextMain]_vars

----------------------------------------------------------------------------
(* Properties of main *)

\* the first file of the directory that read_data cannot read, 0 when none
FirstBadFile ==
    IF \A k \in 1..Len(files) : ReadError(files[k]) = "" THEN 0
    ELSE CHOOSE k \in 1..Len(files) :
            /\ ReadError(files[k]) # ""
            /\ \A j \in 1..(k - 1) : ReadError(files[j]) = ""

\* C8: main reads every file before it writes anything; when read_data fails
\* for the k-th file, main ends with that exception, no later file is read,
\* the record list holds the k-1 earlier records only, and neither the dump
\* file nor the joined output file is opened.
C8_BadFileAborts ==
    /\ (dump_file # "absent" \/ output_file # "absent") =>
        files_read = Len(files) /\ Len(points) = Len(files)
    /\ FirstBadFile # 0 =>
        /\ files_read <= FirstBadFile
        /\ Len(points) < FirstBadFile
        /\ dump_file = "absent"
        /\ output_file = "absent"
        /\ exit_code = -1
        /\ pc \in {"main", "raised"}
        /\ files_read = FirstBadFile => pc = "raised" /\ err = ReadError(files[FirstBadFile])

\* main has stopped at the second of three files, with a dump asked for
C8_Witness ==
    /\ pc = "raised"
    /\ Len(files) = 3
    /\ FirstBadFile = 2
    /\ files_read = 2
    /\ Len(points) = 1
    /\ dump_opt

\* C10: with no input file main never returns 0 and creates neither file: dump
\* raises on points[0], and without a dump calculate_rates raises on order[-1].
C10_NoEmptyReport ==
    files = <<>> =>
        /\ exit_code = -1
        /\ dump_file = "absent"
        /\ output_file = "absent"
        /\ pc \in {"main", "write_data", "raised"}
        /\ pc = "write_data" => ~dump_opt
        /\ pc = "raised" => err = "IndexError"

\* calculate_rates has raised for the empty list
C10_Witness ==
    /\ pc = "raised"
    /\ files = <<>>
    /\ ~dump_opt
    /\ err = "IndexError"

\* calculate_rates step by step and the function calculate_rates agree
CalculateRatesAgrees ==
    /\ pc = "returned" => CalculateRatesError(points) = "" /\ rows = calculate_rates(points)
    /\ pc = "raised" => CalculateRatesError(points) = err

----------------------------------------------------------------------------
(* Properties of read_data and sniff_dialect *)

SecondToLastRow == data[Len(data) - 1]
ThirdToLastRow == data[Len(data) - 2]
LastRow == data[Len(data)]

Cells(row) == {row[i] : i \in 1..Len(row)}

ReadFailure ==
    \/ file.sample = "undecodable"
    \/ Len(file.grid) < 8
    \/ Len(file.grid[8]) < 4
    \/ ~Parsable(file.grid[8][3], file.grid[8][4])
    \/ \E i \in 1..Min(Len(file.grid[Len(file.grid) - 2]), Len(file.grid[Len(file.grid)])) :
            file.grid[Len(file.grid) - 2][i] = "DT"

C9_StreamRewound ==
    /\ pc \in {"sniff_returned", "sniff_raised"} => fp_pos = 0
    /\ pc = "sniff_returned" =>
        /\ err = ""
        /\ file.sample = "soup" => dialect = Excel
        /\ file.sample # "soup" => dialect = [delimiter |-> SniffedDelimiter[file.sample]]
    /\ pc = "sniff_raised" => file.sample = "undecodable"

\* sniff_dialect returned the fallback dialect
C9_Witness ==
    /\ pc = "sniff_returned"
    /\ file.sample = "soup"
    /\ dialect = Excel
    /\ fp_pos = 0

----------------------------------------------------------------------------
(* Properties of calculate_rates *)

RowKey(row) == <<row[1], row[2]>>

\* the returned rows that carry key k
RowsOf(k) == {rows[n] : n \in {m \in 1..Len(rows) : RowKey(rows[m]) = k}}

\* the positions of the input list whose record has key k
Occurrences(k) == {i \in 1..Len(points) : PointIndex(points[i]) = k}

Time(i) == points[i]["DT"].datetime

\* record i is measured before record j: the earlier DT, and for equal DT the
\* earlier position in the list
Before(i, j) ==
    \/ Time(i) < Time(j)
    \/ (Time(i) = Time(j) /\ i < j)

\* the number of records with the key of record i that are measured before it
Rank(i) == Cardinality({j \in Occurrences(PointIndex(points[i])) : Before(j, i)})

\* the key with the greatest speed, and among those the greatest shear rate
GreatestKey ==
    CHOOSE k \in KeySet(points) :
        \A o \in KeySet(points) :
            \/ o[1].int < k[1].int
            \/ (o[1].int = k[1].int /\ o[2].int <= k[2].int)

Readings(i) == <<points[i]["Viscosity"], points[i]["Shear Stress"]>>

\* C1: for every non-empty list calculate_rates returns exactly one row per
\* distinct (Speed, Shear Rate) key, in strictly ascending key order, whatever
\* the order of the list and the timestamps.
C1_OneRowPerKeyAscending ==
    /\ points # <<>> => pc # "raised"
    /\ pc = "returned" =>
        /\ Len(rows) = Cardinality(KeySet(points))
        /\ {RowKey(rows[n]) : n \in 1..Len(rows)} = KeySet(points)
        /\ \A n \in 1..(Len(rows) - 1) : KeyLess(RowKey(rows[n]), RowKey(rows[n + 1]))

\* three rows returned from a list with a repeated key that is ordered
\* neither by key nor by timestamp
C1_Witness ==
    /\ pc = "returned"
    /\ Len(rows) >= 3
    /\ Len(points) > Len(rows)
    /\ \E i, j \in 1..Len(points) :
        /\ i < j
        /\ KeyLess(PointIndex(points[j]), PointIndex(points[i]))
        /\ Time(j) < Time(i)

\* C2: a key that is not max_point and occurs in exactly two records with
\* different timestamps gets the row [speed, shear rate, readings of the
\* earlier record, readings of the later record], wherever the two records
\* stand in the list.
C2_TwoOccurrencesInTimeOrder ==
    pc = "returned" =>
        \A i, j \in 1..Len(points) :
            (/\ Occurrences(PointIndex(points[i])) = {i, j}
             /\ PointIndex(points[i]) # GreatestKey
             /\ Time(i) < Time(j))
            => RowsOf(PointIndex(points[i])) =
                   {RowKey(FirstRow(points[i])) \o Readings(i) \o Readings(j)}

\* the later record of the pair stands first in the list
C2_Witness ==
    /\ pc = "returned"
    /\ \E i, j \in 1..Len(points) :
        /\ Occurrences(PointIndex(points[i])) = {i, j}
        /\ PointIndex(points[i]) # GreatestKey
        /\ Time(i) < Time(j)
        /\ j < i

\* the loop is about to consume a record of a non-max key that the loop has
\* already seen twice or more
LaterOccurrence ==
    /\ pc = "for_point"
    /\ point_no < Len(sorted_points)
    /\ PointIndex(NextPoint) # GreatestKey
    /\ Cardinality({i \in 1..point_no :
                      PointIndex(sorted_points[i]) = PointIndex(NextPoint)}) >= 2

\* C3: for a key that is not max_point and occurs three or more times, every
\* record after the chronologically second one leaves the whole output mapping
\* unchanged, and the returned row holds the readings of the first two
\* occurrences in DT order.
C3_ThirdOccurrenceDropped ==
    /\ [][LaterOccurrence => output' = output]_vars
    /\ [](pc = "returned" =>
            \A i, j \in 1..Len(points) :
                (/\ PointIndex(points[i]) = PointIndex(points[j])
                 /\ PointIndex(points[i]) # GreatestKey
                 /\ Cardinality(Occurrences(PointIndex(points[i]))) >= 3
                 /\ Rank(i) = 0
                 /\ Rank(j) = 1)
                => RowsOf(PointIndex(points[i])) =
                       {RowKey(FirstRow(points[i])) \o Readings(i) \o Readings(j)})

\* the loop has just consumed the third record of a non-max key, and that
\* record stood before the other two in the list
C3_Witness ==
    /\ pc = "for_point"
    /\ point_no >= 3
    /\ PointIndex(sorted_points[point_no]) # max_point
    /\ Cardinality({i \in 1..point_no :
                      PointIndex(sorted_points[i]) = PointIndex(sorted_points[point_no])}) = 3
    /\ \E i \in 1..Len(points) :
        /\ points[i] = sorted_points[point_no]
        /\ \A j \in Occurrences(PointIndex(points[i])) : i <= j

\* C4: every row of the output mapping, at every step, and every returned row
\* has length 4 or 6; a returned row of a non-max key has length 4 when the key
\* occurs once and 6 when it occurs twice or more; the max_point row has
\* length 6.
C4_RowLengths ==
    /\ \A k \in DOMAIN output : Len(output[k]) \in {4, 6}
    /\ pc = "returned" =>
        \A n \in 1..Len(rows) :
            /\ Len(rows[n]) \in {4, 6}
            /\ RowKey(rows[n]) = GreatestKey => Len(rows[n]) = 6
            /\ (RowKey(rows[n]) # GreatestKey /\ Cardinality(Occurrences(RowKey(rows[n]))) = 1)
                => Len(rows[n]) = 4
            /\ (RowKey(rows[n]) # GreatestKey /\ Cardinality(Occurrences(RowKey(rows[n]))) >= 2)
                => Len(rows[n]) = 6

\* the result holds a 4-value row, a 6-value row of a non-max key and the
\* max_point row
C4_Witness ==
    /\ pc = "returned"
    /\ \E n, m \in 1..Len(rows) :
        /\ Len(rows[n]) = 4
        /\ Len(rows[m]) = 6
        /\ RowKey(rows[m]) # GreatestKey

\* the records of max_point the loop has consumed, as positions of sorted_points
MaxSeen == {i \in 1..point_no : PointIndex(sorted_points[i]) = max_point}

\* C5: max_point is the key with the greatest speed, ties broken by the
\* greatest shear rate; its row is [speed, shear rate, v, s, v, s] with v and s
\* the readings of one record of that key, the latest one consumed: every
\* record of that key overwrites the row.
C5_MaxPointRow ==
    /\ pc \in {"for_point", "returned"} =>
        /\ max_point = GreatestKey
        /\ max_point \in DOMAIN output <=> MaxSeen # {}
        /\ \A i \in MaxSeen :
            (\A j \in MaxSeen : j <= i) =>
                output[max_point] =
                    max_point \o
                    <<sorted_points[i]["Viscosity"], sorted_points[i]["Shear Stress"],
                      sorted_points[i]["Viscosity"], sorted_points[i]["Shear Stress"]>>
    /\ pc = "returned" =>
        \A i \in Occurrences(GreatestKey) :
            (\A j \in Occurrences(GreatestKey) : j = i \/ Before(j, i)) =>
                /\ rows[Len(rows)] = GreatestKey \o Readings(i) \o Readings(i)
                /\ RowsOf(GreatestKey) = {rows[Len(rows)]}

\* max_point shares its speed with another key and occurs twice; its latest
\* record stands first in the list
C5_Witness ==
    /\ pc = "returned"
    /\ \E k \in KeySet(points) : k # max_point /\ k[1] = max_point[1]
    /\ \E i, j \in Occurrences(GreatestKey) : i < j /\ Before(j, i)

====
